---- MODULE Spec2Model ----
(***************************************************************************)
(* Model of the go-kelips core: the keyspace partitioner (groups.go), the  *)
(* affinity group membership table and the local group facade.             *)
(***************************************************************************)
EXTENDS Integers, Sequences, FiniteSets, TLC

\* ------------------------------------------------------------------------
\* Bounds and program constants
\* ------------------------------------------------------------------------

\* Number of values of a Go byte; hashSize*8 bits make the keyspace.
ByteBase == 256

\* Largest hash length (in bytes) the partitioner is built with.
MaxHashSize == 2

\* Group counts 1..MaxSmallGroups are built, plus the counts of LargeGroups.
MaxSmallGroups == 5

\* ------------------------------------------------------------------------
\* Byte strings and big integers
\* ------------------------------------------------------------------------

RECURSIVE Pow(_, _)
Pow(b, e) == IF e = 0 THEN 1 ELSE b * Pow(b, e - 1)

\* keyspace.Exp(2, hashSize*8): the size of the keyspace.
Keyspace(hs) == Pow(ByteBase, hs)

\* make([]byte, n): n zero bytes.
ZeroBytes(n) == [k \in 1..n |-> 0]

\* big.Int.Bytes(): the minimal big-endian encoding; zero encodes as the
\* empty slice, and there is never a leading zero byte.
RECURSIVE BigBytes(_)
BigBytes(n) == IF n = 0 THEN <<>>
               ELSE Append(BigBytes(n \div ByteBase), n % ByteBase)

\* A hash digest: always hs bytes, big-endian, zero padded.
RECURSIVE HashBytes(_, _)
HashBytes(n, hs) == IF hs = 0 THEN <<>>
                    ELSE Append(HashBytes(n \div ByteBase, hs - 1), n % ByteBase)

\* The number a byte string encodes (big-endian).
RECURSIVE BytesValue(_)
BytesValue(b) == IF Len(b) = 0 THEN 0
                 ELSE BytesValue(SubSeq(b, 1, Len(b) - 1)) * ByteBase + b[Len(b)]

\* bytes.Compare: lexicographic; a proper prefix is smaller.
RECURSIVE bytesCompare(_, _)
bytesCompare(a, b) ==
    IF Len(a) = 0 /\ Len(b) = 0 THEN 0
    ELSE IF Len(a) = 0 THEN -1
    ELSE IF Len(b) = 0 THEN 1
    ELSE IF a[1] < b[1] THEN -1
    ELSE IF a[1] > b[1] THEN 1
    ELSE bytesCompare(Tail(a), Tail(b))

\* ------------------------------------------------------------------------
\* Keyspace partitioner
\* ------------------------------------------------------------------------

\* newAffinityGroup(id, index); the member map is kept in the variable m.
newAffinityGroup(gid, index) == [id |-> gid, index |-> index]

\* groupSize := keyspace / numGroups
groupSize(n, hs) == Keyspace(hs) \div n

\* genAffinityGroups: group 0 gets hashSize zero bytes, group i gets
\* (i*groupSize).Bytes().  Sequence position k holds group index k-1.
genAffinityGroups(n, hs) ==
    [k \in 1..n |->
        IF k = 1 THEN newAffinityGroup(ZeroBytes(hs), 0)
        ELSE newAffinityGroup(BigBytes((k - 1) * groupSize(n, hs)), k - 1)]

\* A slice arr of ct is [lo, n]: arr[k] is ct[lo + k] (0-based).
SliceAt(ct, a, k) == ct[a.lo + k + 1]

\* getHalf that takes the whole length of the slice.
getHalfLen(a) == a.n

\* i = len(arr) / 2
getHalf(a) == a.n \div 2

\* The guard of the halving step: i != 0 && i != l.
getEnters(a, l) == getHalf(a) # 0 /\ getHalf(a) # l

\* s := bytes.Compare(id, arr[i].id)
getCmp(ct, a, hid) == bytesCompare(hid, SliceAt(ct, a, getHalf(a)).id)

\* arr = arr[:i]
getLower(a) == [lo |-> a.lo, n |-> getHalf(a)]

\* arr = arr[i:]
getUpper(a) == [lo |-> a.lo + getHalf(a), n |-> a.n - getHalf(a)]

\* affinityGroups.get as a function: the position in ct of the group returned.
RECURSIVE getFrom(_, _, _, _)
getFrom(ct, a, l, hid) ==
    IF getEnters(a, l) /\ getCmp(ct, a, hid) < 0 THEN getFrom(ct, getLower(a), l, hid)
    ELSE IF getEnters(a, l) /\ getCmp(ct, a, hid) > 0 THEN getFrom(ct, getUpper(a), l, hid)
    ELSE a.lo + getHalf(a) + 1

get(ct, hid) == getFrom(ct, [lo |-> 0, n |-> Len(ct)], Len(ct), hid)

\* ------------------------------------------------------------------------
\* State
\* ------------------------------------------------------------------------

Threads == {"t1", "t2"}
Hosts == {"A", "B"}
Keys == {"k1", "k2"}
Coords == {"c1"}
Nil == 0

\* The coordinate of a node that was never pinged.
NoCoord == "c0"

\* Calls started in one behaviour of concurrent callers.
MaxCalls == 3

\* Calls started in one behaviour of a single caller.
MaxSeqCalls == 4

\* A node built by a caller carries a heartbeat count in 0..MaxInitHeartbeats.
MaxInitHeartbeats == 0

\* Config.NumAffinityGroups of DefaultConfig.
NumAffinityGroups == 2

\* Digest length of the hash function the facade is configured with.
FacadeHashSize == 1

VARIABLES
    numGroups,  \* genAffinityGroups' numGroups
    hashSize,   \* genAffinityGroups' hashSize
    groups,     \* affinityGroups: the sequence of [id, index]
    id,         \* get: the id searched
    arr,        \* get: the slice arr, as [lo, n] into groups
    gpc,        \* get: position ("REPEAT_ON_HALF", "done", "off")
    gret,       \* get: position in groups of the group returned
    hashFunc,   \* Config.HashFunc: the digest (as a number) of each name
    m,          \* m[g][host]: affinityGroup.m of group index g, Nil if absent
    heap,       \* the hexatype.Node objects; a pointer is a position
    mu,         \* mu[g]: affinityGroup.mu, [w: writer or "none", r: readers]
    tuples,     \* InmemTuples: key -> list of hosts
    now,        \* time.Now().UnixNano(): each reading is later than the last
    pc,         \* pc[t]: position of caller t
    call,       \* call[t]: the call t runs (or ran last) and its locals
    ret,        \* ret[t]: what t's last call returned
    pre,        \* the map, heap and tuples when the running call started
    calls,      \* calls started so far
    beats       \* beats[g][h]: the pings completed on h since h was last at rest

partVars == <<numGroups, hashSize, groups, id, arr, gpc, gret>>
cfgVars == <<numGroups, hashSize, groups, id, arr, gpc, gret, hashFunc>>
sysVars == <<hashFunc, m, heap, mu, tuples, now, pc, call, ret, pre, calls, beats>>
vars == <<numGroups, hashSize, groups, id, arr, gpc, gret,
          hashFunc, m, heap, mu, tuples, now, pc, call, ret, pre, calls, beats>>

GroupIdx == 0..(NumAffinityGroups - 1)

NoCall == [op |-> "none", g |-> 0, host |-> "", force |-> FALSE, coord |-> "",
           key |-> "", node |-> Nil, list |-> <<>>, acc |-> <<>>]
NoRet == [err |-> "none", ptrs |-> <<>>, recs |-> <<>>, n |-> 0]
NoBeats == [clean |-> FALSE, base |-> 0, done |-> 0, par |-> FALSE]
NoPre == [m |-> <<>>, heap |-> <<>>, tuples |-> <<>>]

\* h := hashFunc(); h.Write(x); h.Sum(nil)
Sum(x) == HashBytes(hashFunc[x], FacadeHashSize)

\* len(group.m)
mapLen(g) == Cardinality({h \in Hosts : m[g][h] # Nil})

\* ------------------------------------------------------------------------
\* The partitioner on its own: build the groups, then search them for an id
\* ------------------------------------------------------------------------

\* Group counts past one byte's worth of values, where boundaries differ in
\* encoded length.
LargeGroups == {ByteBase, ByteBase + 1, 2 * ByteBase}

GroupCounts(hs) == {n \in (1..MaxSmallGroups) \cup LargeGroups : n <= Keyspace(hs)}

\* The digests searched: each boundary i*groupSize, its two neighbours, and
\* the last value of the keyspace.
SearchValues(n, hs) ==
    {v \in {i * groupSize(n, hs) + d : i \in 0..(n - 1), d \in {-1, 0, 1}}
           \cup {Keyspace(hs) - 1} : v >= 0 /\ v < Keyspace(hs)}

SysIdle ==
    /\ hashFunc = [x \in Hosts \cup Keys |-> 0]
    /\ m = [g \in GroupIdx |-> [h \in Hosts |-> Nil]]
    /\ heap = <<>>
    /\ mu = [g \in GroupIdx |-> [w |-> "none", r |-> {}]]
    /\ tuples = [k \in Keys |-> <<>>]
    /\ now = 0
    /\ pc = [t \in Threads |-> "idle"]
    /\ call = [t \in Threads |-> NoCall]
    /\ ret = [t \in Threads |-> NoRet]
    /\ pre = NoPre
    /\ calls = 0
    /\ beats = [g \in GroupIdx |-> [h \in Hosts |-> NoBeats]]

InitPart ==
    /\ hashSize \in 1..MaxHashSize
    /\ numGroups \in GroupCounts(hashSize)
    /\ groups = genAffinityGroups(numGroups, hashSize)
    /\ id \in {HashBytes(v, hashSize) : v \in SearchValues(numGroups, hashSize)}
    /\ arr = [lo |-> 0, n |-> Len(groups)]
    /\ gpc = "REPEAT_ON_HALF"
    /\ gret = 0
    /\ SysIdle

\* s < 0: arr = arr[:i]; goto REPEAT_ON_HALF
getLess ==
    /\ gpc = "REPEAT_ON_HALF"
    /\ getEnters(arr, Len(groups))
    /\ getCmp(groups, arr, id) < 0
    /\ arr' = getLower(arr)
    /\ UNCHANGED <<numGroups, hashSize, groups, id, gpc, gret>>
    /\ UNCHANGED sysVars

\* s > 0: arr = arr[i:]; goto REPEAT_ON_HALF
getGreater ==
    /\ gpc = "REPEAT_ON_HALF"
    /\ getEnters(arr, Len(groups))
    /\ getCmp(groups, arr, id) > 0
    /\ arr' = getUpper(arr)
    /\ UNCHANGED <<numGroups, hashSize, groups, id, gpc, gret>>
    /\ UNCHANGED sysVars

\* return arr[i]
getReturn ==
    /\ gpc = "REPEAT_ON_HALF"
    /\ ~(getEnters(arr, Len(groups)) /\ getCmp(groups, arr, id) # 0)
    /\ gret' = arr.lo + getHalf(arr) + 1
    /\ gpc' = "done"
    /\ UNCHANGED <<numGroups, hashSize, groups, id, arr>>
    /\ UNCHANGED sysVars

NextPart == getLess \/ getGreater \/ getReturn

SpecPart == InitPart /\ [][NextPart]_vars

\* The group that owns value v: the greatest i with i*groupSize <= v.
Owner(v, n, hs) ==
    CHOOSE i \in 0..(n - 1) :
        /\ i * groupSize(n, hs) <= v
        /\ (i = n - 1 \/ (i + 1) * groupSize(n, hs) > v)

\* C1: get(v) on the groups genAffinityGroups built returns the group i
\* with the greatest lower boundary i*span <= v, for every group count up to
\* the keyspace size and every digest v.
PartitionCoverage ==
    gpc = "done" =>
        groups[gret].index = Owner(BytesValue(id), numGroups, hashSize)

\* C1 holds of the builds whose boundaries all have the digest's length.
PartitionCoverageOneByteCounts ==
    (gpc = "done" /\ numGroups <= ByteBase) =>
        groups[gret].index = Owner(BytesValue(id), numGroups, hashSize)

\* C2: the stored boundaries are strictly ascending under the comparison
\* get uses, and group 0's boundary is the all-zero value.
BoundaryOrdering ==
    gpc # "off" =>
        /\ \A k \in 1..(Len(groups) - 1) :
               bytesCompare(groups[k].id, groups[k + 1].id) < 0
        /\ groups[1].id = ZeroBytes(hashSize)

\* ------------------------------------------------------------------------
\* Helpers of the callers' steps
\* ------------------------------------------------------------------------

Range(f) == {f[k] : k \in DOMAIN f}

\* Every order in which a range over the Go map of group g can visit it.
Orders(S) == {f \in [1..Cardinality(S) -> S] : \A a, b \in DOMAIN f : f[a] = f[b] => a = b}

Members(g) == {h \in Hosts : m[g][h] # Nil}

\* sync.RWMutex: RLock waits for no writer, Lock for no holder at all.
canRLock(g) == mu[g].w = "none"
canLock(g) == mu[g].w = "none" /\ mu[g].r = {}
RLock(g, t) == [mu EXCEPT ![g].r = @ \cup {t}]
RUnlock(g, t) == [mu EXCEPT ![g].r = @ \ {t}]
Lock(g, t) == [mu EXCEPT ![g].w = t]
Unlock(g, t) == [mu EXCEPT ![g].w = "none"]

\* The ops that read or write the record of one host of one group.
HostOps == {"addNode", "removeNode", "pingNode"}

\* Callers other than t that are inside a HostOps call on (g, h).
OthersOn(t, g, h) ==
    {u \in Threads \ {t} :
        pc[u] # "idle" /\ call[u].op \in HostOps /\ call[u].g = g /\ call[u].host = h}

\* beats after t starts an addNode or removeNode on (g, h).
BeatsStart(g, h) == [beats EXCEPT ![g][h].clean = FALSE]

\* beats after t returns from a HostOps call on (g, h); mm and hp are the
\* map and heap it leaves, pinged says a pingNode returned nil.  par notes
\* that a ping completed while another call on (g, h) was under way.
BeatsReturn(t, g, h, mm, hp, pinged) ==
    IF beats[g][h].clean
    THEN IF pinged
         THEN [beats EXCEPT ![g][h].done = @ + 1,
                            ![g][h].par = @ \/ OthersOn(t, g, h) # {}]
         ELSE beats
    ELSE IF OthersOn(t, g, h) = {} /\ mm[g][h] # Nil
         THEN [beats EXCEPT ![g][h] =
                  [clean |-> TRUE, base |-> hp[mm[g][h]].Heartbeats, done |-> 0,
                   par |-> FALSE]]
         ELSE beats

\* A freed slot of the heap.
NoNode == [host |-> "", Heartbeats |-> 0, LastSeen |-> 0, Coordinates |-> ""]

\* The nodes still referenced when caller t drops what its last call
\* returned: those stored in a map, those a running call holds, and those
\* returned to the other callers.
Live(t) ==
    ({m[g][h] : g \in GroupIdx, h \in Hosts}
        \cup {call[u].node : u \in {v \in Threads \ {t} : pc[v] # "idle"}}
        \cup UNION {Range(ret[u].ptrs) : u \in Threads \ {t}}) \ {Nil}

RECURSIVE Trim(_)
Trim(hp) == IF Len(hp) > 0 /\ hp[Len(hp)] = NoNode
            THEN Trim(SubSeq(hp, 1, Len(hp) - 1)) ELSE hp

\* The heap once the garbage collector has freed the unreferenced nodes.
Swept(t) == Trim([p \in DOMAIN heap |-> IF p \in Live(t) THEN heap[p] ELSE NoNode])

\* The address a new node gets: the first free slot.
NewPtr(hp) ==
    IF \E p \in DOMAIN hp : hp[p] = NoNode
    THEN CHOOSE p \in DOMAIN hp : hp[p] = NoNode /\ \A q \in 1..(p - 1) : hp[q] # NoNode
    ELSE Len(hp) + 1

\* The heap with node allocated at NewPtr.
Alloc(hp, node) ==
    [p \in 1..(IF NewPtr(hp) > Len(hp) THEN Len(hp) + 1 ELSE Len(hp)) |->
        IF p = NewPtr(hp) THEN node ELSE hp[p]]

\* A caller begins the call c.  In a sequential run (seq) it waits for every
\* other caller to be idle, and the state it starts from is remembered.
Begin(t, c, first, hp, seq) ==
    /\ pc[t] = "idle"
    /\ calls < (IF seq THEN MaxSeqCalls ELSE MaxCalls)
    /\ seq => \A u \in Threads : pc[u] = "idle"
    /\ call' = [call EXCEPT ![t] = c]
    /\ pc' = [pc EXCEPT ![t] = first]
    /\ ret' = [ret EXCEPT ![t] = NoRet]
    /\ calls' = calls + 1
    /\ heap' = hp
    /\ pre' = IF seq THEN [m |-> m, heap |-> hp, tuples |-> tuples] ELSE pre

\* A caller returns r.
Return(t, r) ==
    /\ pc' = [pc EXCEPT ![t] = "idle"]
    /\ ret' = [ret EXCEPT ![t] = r]

Goto(t, label) == pc' = [pc EXCEPT ![t] = label]

\* ------------------------------------------------------------------------
\* affinityGroup.addNode
\* ------------------------------------------------------------------------

\* The caller builds the node and calls group.addNode(node, force).
StartAddNode(t, seq, G) ==
    \E h \in Hosts : \E g \in G[h], force \in BOOLEAN,
       hb \in 0..MaxInitHeartbeats :
        /\ Begin(t, [NoCall EXCEPT !.op = "addNode", !.g = g, !.host = h,
                                   !.force = force, !.node = NewPtr(Swept(t))],
                 "add_rlock",
                 Alloc(Swept(t), [host |-> h, Heartbeats |-> hb, LastSeen |-> 0,
                                  Coordinates |-> NoCoord]),
                 seq)
        /\ beats' = BeatsStart(g, h)
        /\ UNCHANGED <<m, mu, tuples, now, cfgVars>>

\* group.mu.RLock()
AddRLock(t) ==
    /\ pc[t] = "add_rlock"
    /\ canRLock(call[t].g)
    /\ mu' = RLock(call[t].g, t)
    /\ Goto(t, "add_check")
    /\ UNCHANGED <<m, heap, tuples, now, call, ret, pre, calls, beats, cfgVars>>

\* addNodeRefused without the force flag.
addNodeRefusedForced(t) == m[call[t].g][call[t].host] # Nil

\* if _, ok := group.m[node.Host()]; ok && !force
addNodeRefused(t) == m[call[t].g][call[t].host] # Nil /\ ~call[t].force

\* ... { RUnlock; return errNodeExists }; RUnlock
AddCheck(t) ==
    /\ pc[t] = "add_check"
    /\ mu' = RUnlock(call[t].g, t)
    /\ IF addNodeRefused(t)
       THEN /\ Return(t, [NoRet EXCEPT !.err = "errNodeExists"])
            /\ beats' = BeatsReturn(t, call[t].g, call[t].host, m, heap, FALSE)
       ELSE /\ Goto(t, "add_lock")
            /\ UNCHANGED <<ret, beats>>
    /\ UNCHANGED <<m, heap, tuples, now, call, pre, calls, cfgVars>>

\* group.mu.Lock()
AddLock(t) ==
    /\ pc[t] = "add_lock"
    /\ canLock(call[t].g)
    /\ mu' = Lock(call[t].g, t)
    /\ Goto(t, "add_store")
    /\ UNCHANGED <<m, heap, tuples, now, call, ret, pre, calls, beats, cfgVars>>

\* node.LastSeen = time.Now().UnixNano(); group.m[node.Host()] = node; Unlock
AddStore(t) ==
    /\ pc[t] = "add_store"
    /\ now' = now + 1
    /\ heap' = [heap EXCEPT ![call[t].node].LastSeen = now']
    /\ m' = [m EXCEPT ![call[t].g][call[t].host] = call[t].node]
    /\ mu' = Unlock(call[t].g, t)
    /\ Goto(t, "add_log")
    /\ UNCHANGED <<tuples, call, ret, pre, calls, beats, cfgVars>>

\* log.Printf(..., len(group.m), ...) with no lock held; return nil
AddLog(t) ==
    /\ pc[t] = "add_log"
    /\ Return(t, [NoRet EXCEPT !.err = "nil", !.n = mapLen(call[t].g)])
    /\ beats' = BeatsReturn(t, call[t].g, call[t].host, m, heap, FALSE)
    /\ UNCHANGED <<m, heap, mu, tuples, now, call, pre, calls, cfgVars>>

\* ------------------------------------------------------------------------
\* affinityGroup.removeNode
\* ------------------------------------------------------------------------

StartRemoveNode(t, seq, G) ==
    \E h \in Hosts : \E g \in G[h] :
        /\ Begin(t, [NoCall EXCEPT !.op = "removeNode", !.g = g, !.host = h],
                 "rem_rlock", Swept(t), seq)
        /\ beats' = BeatsStart(g, h)
        /\ UNCHANGED <<m, mu, tuples, now, cfgVars>>

\* group.mu.RLock()
RemRLock(t) ==
    /\ pc[t] = "rem_rlock"
    /\ canRLock(call[t].g)
    /\ mu' = RLock(call[t].g, t)
    /\ Goto(t, "rem_check")
    /\ UNCHANGED <<m, heap, tuples, now, call, ret, pre, calls, beats, cfgVars>>

\* _, ok := group.m[hostname]
hostFound(t) == m[call[t].g][call[t].host] # Nil

\* if !ok { RUnlock; return "node not found" }; RUnlock
RemCheck(t) ==
    /\ pc[t] = "rem_check"
    /\ mu' = RUnlock(call[t].g, t)
    /\ IF ~hostFound(t)
       THEN /\ Return(t, [NoRet EXCEPT !.err = "node not found"])
            /\ beats' = BeatsReturn(t, call[t].g, call[t].host, m, heap, FALSE)
       ELSE /\ Goto(t, "rem_lock")
            /\ UNCHANGED <<ret, beats>>
    /\ UNCHANGED <<m, heap, tuples, now, call, pre, calls, cfgVars>>

\* group.mu.Lock()
RemLock(t) ==
    /\ pc[t] = "rem_lock"
    /\ canLock(call[t].g)
    /\ mu' = Lock(call[t].g, t)
    /\ Goto(t, "rem_delete")
    /\ UNCHANGED <<m, heap, tuples, now, call, ret, pre, calls, beats, cfgVars>>

\* mapDelete that deletes nothing.
mapDeleteNone(mm, g, h) == mm

\* delete(group.m, hostname)
mapDelete(mm, g, h) == [mm EXCEPT ![g][h] = Nil]

\* delete(group.m, hostname); Unlock
RemDelete(t) ==
    /\ pc[t] = "rem_delete"
    /\ m' = mapDelete(m, call[t].g, call[t].host)
    /\ mu' = Unlock(call[t].g, t)
    /\ Goto(t, "rem_log")
    /\ UNCHANGED <<heap, tuples, now, call, ret, pre, calls, beats, cfgVars>>

\* log.Printf(..., len(group.m), ...) with no lock held; return nil
RemLog(t) ==
    /\ pc[t] = "rem_log"
    /\ Return(t, [NoRet EXCEPT !.err = "nil", !.n = mapLen(call[t].g)])
    /\ beats' = BeatsReturn(t, call[t].g, call[t].host, m, heap, FALSE)
    /\ UNCHANGED <<m, heap, mu, tuples, now, call, pre, calls, cfgVars>>

\* ------------------------------------------------------------------------
\* affinityGroup.pingNode
\* ------------------------------------------------------------------------

StartPingNode(t, seq, G) ==
    \E h \in Hosts : \E g \in G[h], c \in Coords :
        /\ Begin(t, [NoCall EXCEPT !.op = "pingNode", !.g = g, !.host = h,
                                   !.coord = c],
                 "ping_rlock", Swept(t), seq)
        /\ UNCHANGED <<m, mu, tuples, now, cfgVars, beats>>

\* group.mu.RLock()
PingRLock(t) ==
    /\ pc[t] = "ping_rlock"
    /\ canRLock(call[t].g)
    /\ mu' = RLock(call[t].g, t)
    /\ Goto(t, "ping_check")
    /\ UNCHANGED <<m, heap, tuples, now, call, ret, pre, calls, beats, cfgVars>>

\* node, ok := group.m[hostname]; if !ok { RUnlock; return err }; RUnlock
PingCheck(t) ==
    /\ pc[t] = "ping_check"
    /\ mu' = RUnlock(call[t].g, t)
    /\ IF ~hostFound(t)
       THEN /\ Return(t, [NoRet EXCEPT !.err = "node not found"])
            /\ beats' = BeatsReturn(t, call[t].g, call[t].host, m, heap, FALSE)
            /\ UNCHANGED call
       ELSE /\ call' = [call EXCEPT ![t].node = m[call[t].g][call[t].host]]
            /\ Goto(t, "ping_lock")
            /\ UNCHANGED <<ret, beats>>
    /\ UNCHANGED <<m, heap, tuples, now, pre, calls, cfgVars>>

\* group.mu.Lock()
PingLock(t) ==
    /\ pc[t] = "ping_lock"
    /\ canLock(call[t].g)
    /\ mu' = Lock(call[t].g, t)
    /\ Goto(t, "ping_update")
    /\ UNCHANGED <<m, heap, tuples, now, call, ret, pre, calls, beats, cfgVars>>

\* pingBeat that sets the counter instead of incrementing it.
pingBeatSet(node) == 1

\* node.Heartbeats++
pingBeat(node) == node.Heartbeats + 1

\* node.Heartbeats++; node.LastSeen = now; node.Coordinates = coord.Clone();
\* group.m[hostname] = node; Unlock; return nil
PingUpdate(t) ==
    /\ pc[t] = "ping_update"
    /\ now' = now + 1
    /\ heap' = [heap EXCEPT ![call[t].node] =
                   [@ EXCEPT !.Heartbeats = pingBeat(heap[call[t].node]),
                             !.LastSeen = now',
                             !.Coordinates = call[t].coord]]
    /\ m' = [m EXCEPT ![call[t].g][call[t].host] = call[t].node]
    /\ mu' = Unlock(call[t].g, t)
    /\ Return(t, [NoRet EXCEPT !.err = "nil"])
    /\ beats' = BeatsReturn(t, call[t].g, call[t].host, m', heap', TRUE)
    /\ UNCHANGED <<tuples, call, pre, calls, cfgVars>>

\* ------------------------------------------------------------------------
\* affinityGroup.getNode, Nodes, count
\* ------------------------------------------------------------------------

StartGetNode(t, seq, G) ==
    \E h \in Hosts : \E g \in G[h] :
        /\ Begin(t, [NoCall EXCEPT !.op = "getNode", !.g = g, !.host = h],
                 "gn_rlock", Swept(t), seq)
        /\ UNCHANGED <<m, mu, tuples, now, cfgVars, beats>>

\* group.mu.RLock()
GetNodeRLock(t) ==
    /\ pc[t] = "gn_rlock"
    /\ canRLock(call[t].g)
    /\ mu' = RLock(call[t].g, t)
    /\ Goto(t, "gn_read")
    /\ UNCHANGED <<m, heap, tuples, now, call, ret, pre, calls, beats, cfgVars>>

\* n, ok := group.m[hostname]: the stored pointer itself, or (nil, false).
getNode(g, h) == IF m[g][h] # Nil THEN <<m[g][h]>> ELSE <<>>

\* n, ok := group.m[hostname]; return n, ok (deferred RUnlock)
GetNodeRead(t) ==
    /\ pc[t] = "gn_read"
    /\ mu' = RUnlock(call[t].g, t)
    /\ Return(t, [NoRet EXCEPT !.err = "nil", !.ptrs = getNode(call[t].g, call[t].host)])
    /\ UNCHANGED <<m, heap, tuples, now, call, pre, calls, beats, cfgVars>>

StartNodes(t, seq, G) ==
    \E g \in UNION {G[h] : h \in Hosts} :
        /\ Begin(t, [NoCall EXCEPT !.op = "Nodes", !.g = g], "nodes_rlock", Swept(t), seq)
        /\ UNCHANGED <<m, mu, tuples, now, cfgVars, beats>>

\* group.mu.RLock()
NodesRLock(t) ==
    /\ pc[t] = "nodes_rlock"
    /\ canRLock(call[t].g)
    /\ mu' = RLock(call[t].g, t)
    /\ Goto(t, "nodes_read")
    /\ UNCHANGED <<m, heap, tuples, now, call, ret, pre, calls, beats, cfgVars>>

\* for _, node := range group.m { n = append(n, *node) }: the copies of the
\* stored records, in any of the orders a Go map range may produce.
Nodes(g) == {[k \in DOMAIN o |-> heap[m[g][o[k]]]] : o \in Orders(Members(g))}

\* n := ...; RUnlock; return n
NodesRead(t) ==
    /\ pc[t] = "nodes_read"
    /\ mu' = RUnlock(call[t].g, t)
    /\ \E n \in Nodes(call[t].g) :
           Return(t, [NoRet EXCEPT !.err = "nil", !.recs = n])
    /\ UNCHANGED <<m, heap, tuples, now, call, pre, calls, beats, cfgVars>>

StartCount(t, seq, G) ==
    \E g \in UNION {G[h] : h \in Hosts} :
        /\ Begin(t, [NoCall EXCEPT !.op = "count", !.g = g], "count_rlock", Swept(t), seq)
        /\ UNCHANGED <<m, mu, tuples, now, cfgVars, beats>>

\* group.mu.RLock()
CountRLock(t) ==
    /\ pc[t] = "count_rlock"
    /\ canRLock(call[t].g)
    /\ mu' = RLock(call[t].g, t)
    /\ Goto(t, "count_read")
    /\ UNCHANGED <<m, heap, tuples, now, call, ret, pre, calls, beats, cfgVars>>

\* return len(group.m) (deferred RUnlock)
CountRead(t) ==
    /\ pc[t] = "count_read"
    /\ mu' = RUnlock(call[t].g, t)
    /\ Return(t, [NoRet EXCEPT !.err = "nil", !.n = mapLen(call[t].g)])
    /\ UNCHANGED <<m, heap, tuples, now, call, pre, calls, beats, cfgVars>>

\* ------------------------------------------------------------------------
\* InmemTuples: the tuple directory
\* ------------------------------------------------------------------------

\* tuplesInsert without the presence test.
tuplesInsertAppend(tp, k, h) == [tp EXCEPT ![k] = Append(@, h)]

\* insert(key, host): add host to the key's hosts unless it is there.
tuplesInsert(tp, k, h) ==
    IF h \in Range(tp[k]) THEN tp ELSE [tp EXCEPT ![k] = Append(@, h)]

\* tuplesDel that drops the key's whole entry.
tuplesDelKey(tp, k, h) == [tp EXCEPT ![k] = <<>>]

\* delete(key, host): take host out of the key's hosts.
tuplesDel(tp, k, h) == [tp EXCEPT ![k] = SelectSeq(@, LAMBDA x : x # h)]

\* get(key): the key's hosts; NotFound when the key has no entries.
tuplesFound(tp, k) == Len(tp[k]) > 0

\* count(): the keys with at least one host.
tuplesCount(tp) == Cardinality({k \in Keys : Len(tp[k]) > 0})

\* localGroup.Insert(key, tuple): return lrpc.tuples.Insert(key, tuple)
StartInsert(t, seq) ==
    \E k \in Keys, h \in Hosts :
        /\ Begin(t, [NoCall EXCEPT !.op = "Insert", !.key = k, !.host = h],
                 "insert", Swept(t), seq)
        /\ UNCHANGED <<m, mu, tuples, now, cfgVars, beats>>

Insert(t) ==
    /\ pc[t] = "insert"
    /\ tuples' = tuplesInsert(tuples, call[t].key, call[t].host)
    /\ Return(t, [NoRet EXCEPT !.err = "nil"])
    /\ UNCHANGED <<m, heap, mu, now, call, pre, calls, beats, cfgVars>>

\* InmemTuples.Del(key, host)
StartDel(t, seq) ==
    \E k \in Keys, h \in Hosts :
        /\ Begin(t, [NoCall EXCEPT !.op = "Del", !.key = k, !.host = h],
                 "del", Swept(t), seq)
        /\ UNCHANGED <<m, mu, tuples, now, cfgVars, beats>>

Del(t) ==
    /\ pc[t] = "del"
    /\ tuples' = tuplesDel(tuples, call[t].key, call[t].host)
    /\ Return(t, [NoRet EXCEPT !.err = "nil"])
    /\ UNCHANGED <<m, heap, mu, now, call, pre, calls, beats, cfgVars>>

\* InmemTuples.ExpireHost(host): the keys are swept one at a time, in an
\* order left open; call[t].list holds the keys still to visit and
\* call[t].force whether a removal occurred.
StartExpireHost(t, seq) ==
    \E h \in Hosts, o \in Orders(Keys) :
        /\ Begin(t, [NoCall EXCEPT !.op = "ExpireHost", !.host = h, !.list = o],
                 "expire", Swept(t), seq)
        /\ UNCHANGED <<m, mu, tuples, now, cfgVars, beats>>

\* expireRemoves that reports a removal for every key that has hosts.
expireRemovesAny(tp, k, h) == Len(tp[k]) > 0

\* Whether visiting key k removes host h.
expireRemoves(tp, k, h) == h \in Range(tp[k])

ExpireKey(t) ==
    /\ pc[t] = "expire"
    /\ Len(call[t].list) > 0
    /\ tuples' = tuplesDel(tuples, Head(call[t].list), call[t].host)
    /\ call' = [call EXCEPT ![t].list = Tail(@),
                            ![t].force = @ \/ expireRemoves(tuples, Head(call[t].list),
                                                            call[t].host)]
    /\ UNCHANGED <<m, heap, mu, now, pc, ret, pre, calls, beats, cfgVars>>

ExpireReturn(t) ==
    /\ pc[t] = "expire"
    /\ Len(call[t].list) = 0
    /\ Return(t, [NoRet EXCEPT !.err = IF call[t].force THEN "true" ELSE "false"])
    /\ UNCHANGED <<m, heap, mu, tuples, now, call, pre, calls, beats, cfgVars>>

\* ------------------------------------------------------------------------
\* localGroup.Lookup and localGroup.LookupGroupNodes
\* ------------------------------------------------------------------------

\* id := tuple.ID(h); tg := lrpc.groups.get(id)
lookupGroup(h) == groups[get(groups, Sum(h))].index

\* sh := h.Sum(nil) of the key; group := lrpc.groups.get(sh)
keyGroup(k) == groups[get(groups, Sum(k))].index

StartLookup(t, seq) ==
    \E k \in Keys :
        /\ Begin(t, [NoCall EXCEPT !.op = "Lookup", !.key = k], "lk_get", Swept(t), seq)
        /\ UNCHANGED <<m, mu, tuples, now, cfgVars, beats>>

\* tuples, err := lrpc.tuples.Get(key); if err != nil { return nil, err }
LookupGet(t) ==
    /\ pc[t] = "lk_get"
    /\ IF tuplesFound(tuples, call[t].key)
       THEN /\ call' = [call EXCEPT ![t].list = tuples[call[t].key], ![t].acc = <<>>]
            /\ Goto(t, "lk_rlock")
            /\ UNCHANGED ret
       ELSE /\ Return(t, [NoRet EXCEPT !.err = "not found"])
            /\ UNCHANGED call
    /\ UNCHANGED <<m, heap, mu, tuples, now, pre, calls, beats, cfgVars>>

\* tg.getNode(tuple.String()): group.mu.RLock()
LookupRLock(t) ==
    /\ pc[t] = "lk_rlock"
    /\ canRLock(lookupGroup(Head(call[t].list)))
    /\ mu' = RLock(lookupGroup(Head(call[t].list)), t)
    /\ Goto(t, "lk_read")
    /\ UNCHANGED <<m, heap, tuples, now, call, ret, pre, calls, beats, cfgVars>>

\* lookupAppend without the ok test.
lookupAppendAll(acc, g, h) == Append(acc, m[g][h])

\* if node, ok := tg.getNode(...); ok { nodes = append(nodes, node) }
lookupAppend(acc, g, h) == acc \o getNode(g, h)

\* The rest of one round of the loop over the tuples; return nodes, nil
\* after the last.
LookupRead(t) ==
    /\ pc[t] = "lk_read"
    /\ mu' = RUnlock(lookupGroup(Head(call[t].list)), t)
    /\ LET h == Head(call[t].list)
           nodes == lookupAppend(call[t].acc, lookupGroup(h), h)
       IN  IF Len(call[t].list) = 1
           THEN /\ Return(t, [NoRet EXCEPT !.err = "nil", !.ptrs = nodes])
                /\ call' = [call EXCEPT ![t].list = <<>>, ![t].acc = <<>>]
           ELSE /\ call' = [call EXCEPT ![t].list = Tail(@), ![t].acc = nodes]
                /\ Goto(t, "lk_rlock")
                /\ UNCHANGED ret
    /\ UNCHANGED <<m, heap, tuples, now, pre, calls, beats, cfgVars>>

StartLookupGroupNodes(t, seq) ==
    \E k \in Keys :
        /\ Begin(t, [NoCall EXCEPT !.op = "LookupGroupNodes", !.key = k,
                                   !.g = keyGroup(k)],
                 "lgn_rlock", Swept(t), seq)
        /\ UNCHANGED <<m, mu, tuples, now, cfgVars, beats>>

\* n := group.Nodes(): group.mu.RLock()
LgnRLock(t) ==
    /\ pc[t] = "lgn_rlock"
    /\ canRLock(call[t].g)
    /\ mu' = RLock(call[t].g, t)
    /\ Goto(t, "lgn_read")
    /\ UNCHANGED <<m, heap, tuples, now, call, ret, pre, calls, beats, cfgVars>>

\* for _, nd := range n { nodes = append(nodes, &nd) }: nd is one variable
\* for the whole loop, so every element appended is its address, and after
\* the loop it holds the last element of n.
loopPointers(n) == [k \in 1..Len(n) |-> n[Len(n)]]

\* n := group.Nodes(); ...; return nodes, nil
LgnRead(t) ==
    /\ pc[t] = "lgn_read"
    /\ mu' = RUnlock(call[t].g, t)
    /\ \E n \in Nodes(call[t].g) :
           Return(t, [NoRet EXCEPT !.err = "nil", !.recs = loopPointers(n)])
    /\ UNCHANGED <<m, heap, tuples, now, call, pre, calls, beats, cfgVars>>

\* ------------------------------------------------------------------------
\* The system: callers running calls on one localGroup
\* ------------------------------------------------------------------------

\* The hash function the system is configured with sends A and k1 to the
\* last digest of group 0, and B and k2 to the first digest of group 1.
HashFuncs ==
    {[x \in Hosts \cup Keys |->
         IF x \in {"A", "k1"} THEN groupSize(NumAffinityGroups, FacadeHashSize) - 1
         ELSE groupSize(NumAffinityGroups, FacadeHashSize)]}

Init ==
    /\ numGroups = NumAffinityGroups
    /\ hashSize = FacadeHashSize
    /\ groups = genAffinityGroups(numGroups, hashSize)
    /\ id = <<>>
    /\ arr = [lo |-> 0, n |-> 0]
    /\ gpc = "off"
    /\ gret = 0
    /\ hashFunc \in HashFuncs
    /\ m = [g \in GroupIdx |-> [h \in Hosts |-> Nil]]
    /\ heap = <<>>
    /\ mu = [g \in GroupIdx |-> [w |-> "none", r |-> {}]]
    /\ tuples = [k \in Keys |-> <<>>]
    /\ now = 0
    /\ pc = [t \in Threads |-> "idle"]
    /\ call = [t \in Threads |-> NoCall]
    /\ ret = [t \in Threads |-> NoRet]
    /\ pre = NoPre
    /\ calls = 0
    /\ beats = [g \in GroupIdx |-> [h \in Hosts |-> NoBeats]]

\* The groups a caller may run a membership operation of host h on.
FirstGroup == [h \in Hosts |-> {0}]
AnyGroup == [h \in Hosts |-> GroupIdx]

\* Callers run addNode, removeNode and pingNode on group 0 concurrently.
Next ==
    \E t \in Threads :
        \/ StartAddNode(t, FALSE, FirstGroup) \/ StartRemoveNode(t, FALSE, FirstGroup)
        \/ StartPingNode(t, FALSE, FirstGroup)
        \/ AddRLock(t) \/ AddCheck(t) \/ AddLock(t) \/ AddStore(t) \/ AddLog(t)
        \/ RemRLock(t) \/ RemCheck(t) \/ RemLock(t) \/ RemDelete(t) \/ RemLog(t)
        \/ PingRLock(t) \/ PingCheck(t) \/ PingLock(t) \/ PingUpdate(t)

Spec == Init /\ [][Next]_vars

\* The caller of the sequential runs.
SeqThread == CHOOSE t \in Threads : TRUE

\* The membership operations of group 0, one call at a time.
NextGroupSeq ==
    \E t \in {SeqThread} :
        \/ StartAddNode(t, TRUE, FirstGroup) \/ StartRemoveNode(t, TRUE, FirstGroup) \/ StartPingNode(t, TRUE, FirstGroup)
        \/ StartGetNode(t, TRUE, FirstGroup) \/ StartNodes(t, TRUE, FirstGroup) \/ StartCount(t, TRUE, FirstGroup)
        \/ AddRLock(t) \/ AddCheck(t) \/ AddLock(t) \/ AddStore(t) \/ AddLog(t)
        \/ RemRLock(t) \/ RemCheck(t) \/ RemLock(t) \/ RemDelete(t) \/ RemLog(t)
        \/ PingRLock(t) \/ PingCheck(t) \/ PingLock(t) \/ PingUpdate(t)
        \/ GetNodeRLock(t) \/ GetNodeRead(t)
        \/ NodesRLock(t) \/ NodesRead(t)
        \/ CountRLock(t) \/ CountRead(t)

SpecGroupSeq == Init /\ [][NextGroupSeq]_vars

\* The tuple directory's operations, one call at a time.
NextTuples ==
    \E t \in {SeqThread} :
        \/ StartInsert(t, TRUE) \/ StartDel(t, TRUE) \/ StartExpireHost(t, TRUE)
        \/ Insert(t) \/ Del(t) \/ ExpireKey(t) \/ ExpireReturn(t)

SpecTuples == Init /\ [][NextTuples]_vars

\* The facade's lookups over a changing membership and directory, one call
\* at a time.
NextFacadeSeq ==
    \E t \in {SeqThread} :
        \/ StartAddNode(t, TRUE, AnyGroup) \/ StartRemoveNode(t, TRUE, AnyGroup)
        \/ StartInsert(t, TRUE) \/ StartDel(t, TRUE)
        \/ StartLookup(t, TRUE) \/ StartLookupGroupNodes(t, TRUE)
        \/ AddRLock(t) \/ AddCheck(t) \/ AddLock(t) \/ AddStore(t) \/ AddLog(t)
        \/ RemRLock(t) \/ RemCheck(t) \/ RemLock(t) \/ RemDelete(t) \/ RemLog(t)
        \/ Insert(t) \/ Del(t)
        \/ LookupGet(t) \/ LookupRLock(t) \/ LookupRead(t)
        \/ LgnRLock(t) \/ LgnRead(t)

SpecFacadeSeq == Init /\ [][NextFacadeSeq]_vars

\* ------------------------------------------------------------------------
\* Properties
\* ------------------------------------------------------------------------

\* Caller t has returned from a call of op.
Returned(t, op) == pc[t] = "idle" /\ call[t].op = op

\* The members of group g when the running (or last) sequential call began.
PreMembers(g) == {h \in Hosts : pre.m[g][h] # Nil}

Without(list, h) == SelectSeq(list, LAMBDA x : x # h)

\* C3: one call at a time, addNode(n, force=false) on a member fails with
\* errNodeExists and leaves the map and the records as they were;
\* addNode(n, force=true) on a member succeeds, keeps the member count and
\* makes n the stored record.
AddNodeOnMember ==
    \A t \in Threads :
        (Returned(t, "addNode") /\ pre.m[call[t].g][call[t].host] # Nil) =>
            IF call[t].force
            THEN /\ ret[t].err = "nil"
                 /\ mapLen(call[t].g) = Cardinality(PreMembers(call[t].g))
                 /\ m[call[t].g][call[t].host] = call[t].node
                 /\ heap[call[t].node].host = call[t].host
            ELSE /\ ret[t].err = "errNodeExists"
                 /\ m = pre.m
                 /\ heap = pre.heap

\* A forced addNode replaced the record of a member that had been pinged.
AddNodeOnMemberWitness ==
    \E t \in Threads :
        /\ Returned(t, "addNode") /\ call[t].force
        /\ pre.m[call[t].g][call[t].host] \notin {Nil, call[t].node}
        /\ pre.heap[pre.m[call[t].g][call[t].host]].Heartbeats > 0
        /\ m[call[t].g][call[t].host] = call[t].node

\* C4: one call at a time, removeNode and pingNode of a host that is no
\* member return the not-found error and change neither the map nor a
\* record; removeNode of a member succeeds and leaves it no member.
AbsentHostNotFound ==
    \A t \in Threads :
        /\ (Returned(t, "removeNode") \/ Returned(t, "pingNode")) /\
           pre.m[call[t].g][call[t].host] = Nil
              => (ret[t].err = "node not found" /\ m = pre.m /\ heap = pre.heap)
        /\ Returned(t, "removeNode") /\ pre.m[call[t].g][call[t].host] # Nil
              => (ret[t].err = "nil" /\ m[call[t].g][call[t].host] = Nil)

\* removeNode took a member out of a group that keeps another member.
AbsentHostNotFoundWitness ==
    \E t \in Threads :
        /\ Returned(t, "removeNode")
        /\ pre.m[call[t].g][call[t].host] # Nil
        /\ ret[t].err = "nil"
        /\ mapLen(call[t].g) = 1

\* Callers inside a pingNode of host h of group g.
Pinging(g, h) ==
    {t \in Threads : pc[t] # "idle" /\ call[t].op = "pingNode"
                     /\ call[t].g = g /\ call[t].host = h}

\* C5: when k pingNode(h) calls have completed on a member h since no
\* addNode or removeNode of h was running, and none is under way, the
\* heartbeat counter of h's record is exactly k higher, however the calls
\* interleaved.
HeartbeatCount ==
    \A g \in GroupIdx, h \in Hosts :
        (beats[g][h].clean /\ Pinging(g, h) = {}) =>
            /\ m[g][h] # Nil
            /\ heap[m[g][h]].Heartbeats = beats[g][h].base + beats[g][h].done

\* Two callers have each completed a pingNode of the same member, and the
\* two calls overlapped.
HeartbeatCountWitness ==
    \E g \in GroupIdx, h \in Hosts :
        /\ beats[g][h].clean /\ beats[g][h].done = 2 /\ beats[g][h].par
        /\ \A t \in Threads :
               Returned(t, "pingNode") /\ call[t].g = g /\ call[t].host = h
               /\ ret[t].err = "nil"

NoDuplicate(list) == \A a, b \in DOMAIN list : list[a] = list[b] => a = b

\* C6: inserting (k, h) when h is among k's hosts leaves the directory as
\* it was and is no error, and no key ever lists a host twice.
InsertIdempotent ==
    /\ \A t \in Threads :
           (Returned(t, "Insert") /\ call[t].host \in Range(pre.tuples[call[t].key])) =>
               (ret[t].err = "nil" /\ tuples = pre.tuples)
    /\ \A k \in Keys : NoDuplicate(tuples[k])

\* A host was inserted again under a key that lists it with another host.
InsertIdempotentWitness ==
    \E t \in Threads :
        /\ Returned(t, "Insert")
        /\ call[t].host \in Range(pre.tuples[call[t].key])
        /\ Len(pre.tuples[call[t].key]) = 2

\* C7: one call at a time, ExpireHost(h) takes h out of every key's hosts,
\* leaves every other host in place, and returns true exactly when some
\* key listed h before the call.
ExpireHostSweep ==
    \A t \in Threads :
        Returned(t, "ExpireHost") =>
            /\ \A k \in Keys : tuples[k] = Without(pre.tuples[k], call[t].host)
            /\ (ret[t].err = "true") <=>
                   (\E k \in Keys : call[t].host \in Range(pre.tuples[k]))

\* ExpireHost took a host out of two keys, one of which keeps another host.
ExpireHostSweepWitness ==
    \E t \in Threads :
        /\ Returned(t, "ExpireHost")
        /\ ret[t].err = "true"
        /\ \A k \in Keys : call[t].host \in Range(pre.tuples[k])
        /\ \E k \in Keys : Len(tuples[k]) = 1

\* C8: Del(k, h) takes only h out of only k's hosts; the other hosts of k
\* and the other keys stay, and deleting a host k does not list changes
\* nothing.
DelFrame ==
    \A t \in Threads :
        Returned(t, "Del") =>
            /\ tuples[call[t].key] = Without(pre.tuples[call[t].key], call[t].host)
            /\ \A k \in Keys \ {call[t].key} : tuples[k] = pre.tuples[k]
            /\ call[t].host \notin Range(pre.tuples[call[t].key]) => tuples = pre.tuples

\* Del took a host out of a key that keeps another host, while another key
\* lists the deleted host still.
DelFrameWitness ==
    \E t \in Threads :
        /\ Returned(t, "Del")
        /\ call[t].host \in Range(pre.tuples[call[t].key])
        /\ Len(tuples[call[t].key]) = 1
        /\ \E k \in Keys \ {call[t].key} : call[t].host \in Range(tuples[k])

\* The group that owns the digest of name x, found numerically.
OwnerOf(x) == Owner(hashFunc[x], numGroups, hashSize)

\* The stored records of the hosts of list that are members of their
\* owning group, in list order.
RECURSIVE Resolved(_)
Resolved(list) ==
    IF Len(list) = 0 THEN <<>>
    ELSE (IF m[OwnerOf(Head(list))][Head(list)] # Nil
          THEN <<m[OwnerOf(Head(list))][Head(list)]>> ELSE <<>>)
         \o Resolved(Tail(list))

\* C9: one call at a time, Lookup(k) of a key with an entry returns no
\* error and exactly the records of k's hosts that are members of the
\* group owning their digest; a host its group no longer lists is left out.
LookupResolves ==
    \A t \in Threads :
        (Returned(t, "Lookup") /\ Len(pre.tuples[call[t].key]) > 0) =>
            /\ ret[t].err = "nil"
            /\ ret[t].ptrs = Resolved(pre.tuples[call[t].key])

\* Lookup of a key with two hosts returned the record of the one that is a
\* member and left out the stale one.
LookupResolvesWitness ==
    \E t \in Threads :
        /\ Returned(t, "Lookup")
        /\ Len(pre.tuples[call[t].key]) = 2
        /\ Len(ret[t].ptrs) = 1
        /\ heap[ret[t].ptrs[1]].host \in Range(pre.tuples[call[t].key])

\* C10: LookupGroupNodes(key) never fails and returns one record for each
\* member of the group owning the key's digest, each equal to that
\* member's stored record.
LookupGroupNodesMembers ==
    \A t \in Threads :
        Returned(t, "LookupGroupNodes") =>
            /\ ret[t].err = "nil"
            /\ Len(ret[t].recs) = Cardinality(PreMembers(OwnerOf(call[t].key)))
            /\ \A h \in PreMembers(OwnerOf(call[t].key)) :
                   \E k \in DOMAIN ret[t].recs :
                       ret[t].recs[k] = pre.heap[pre.m[OwnerOf(call[t].key)][h]]

\* With at most one member in the group the list LookupGroupNodes returns
\* is right.
LookupGroupNodesSingle ==
    \A t \in Threads :
        (Returned(t, "LookupGroupNodes")
            /\ Cardinality(PreMembers(OwnerOf(call[t].key))) <= 1) =>
            /\ ret[t].err = "nil"
            /\ Len(ret[t].recs) = Cardinality(PreMembers(OwnerOf(call[t].key)))
            /\ \A h \in PreMembers(OwnerOf(call[t].key)) :
                   \E k \in DOMAIN ret[t].recs :
                       ret[t].recs[k] = pre.heap[pre.m[OwnerOf(call[t].key)][h]]

\* ------------------------------------------------------------------------
\* The halving loop of get
\* ------------------------------------------------------------------------

\* The loop of get runs to its end: a step that can be taken is taken.
SpecPartFair == SpecPart /\ WF_vars(NextPart)

\* The slice is a non-empty part of the list, the index i lies inside it,
\* and the group returned is an element of the slice, so of the list.
GetInRange ==
    /\ gpc = "REPEAT_ON_HALF" =>
           /\ arr.n >= 1 /\ arr.lo >= 0 /\ arr.lo + arr.n <= Len(groups)
           /\ getHalf(arr) >= 0 /\ getHalf(arr) < arr.n
    /\ gpc = "done" =>
           /\ gret \in 1..Len(groups)
           /\ gret > arr.lo /\ gret <= arr.lo + arr.n

\* A repetition leaves a strictly shorter, non-empty part of the slice.
GetShrinks ==
    arr' # arr =>
        /\ arr'.n < arr.n /\ arr'.n >= 1
        /\ arr'.lo >= arr.lo /\ arr'.lo + arr'.n <= arr.lo + arr.n

\* C14: for every non-empty list of groups and every id the halving loop
\* of get terminates: each repetition strictly shrinks the slice, the index
\* stays inside the slice, and one element of the list is returned.
GetTerminates == []GetInRange /\ [][GetShrinks]_vars /\ <>(gpc = "done")

\* get on a list of odd length halved the slice twice and returned the last
\* group through the exit taken at length one.
GetTerminatesWitness ==
    /\ gpc = "done" /\ Len(groups) = 3
    /\ arr.n = 1 /\ gret = Len(groups)

\* ------------------------------------------------------------------------
\* The boundaries genAffinityGroups stores
\* ------------------------------------------------------------------------

\* C15: every stored boundary is exactly hashSize bytes long and encodes
\* i*groupSize big-endian, for every group count and hash length, also when
\* i*groupSize has leading zero bytes.
BoundaryEncoding ==
    gpc # "off" =>
        \A k \in 1..Len(groups) :
            /\ Len(groups[k].id) = hashSize
            /\ BytesValue(groups[k].id) = (k - 1) * groupSize(numGroups, hashSize)

\* C15 holds of the builds in which no boundary past group 0 has a leading
\* zero byte.
BoundaryEncodingOneByteCounts ==
    (gpc # "off" /\ numGroups <= ByteBase) =>
        \A k \in 1..Len(groups) :
            /\ Len(groups[k].id) = hashSize
            /\ BytesValue(groups[k].id) = (k - 1) * groupSize(numGroups, hashSize)

\* ------------------------------------------------------------------------
\* The heartbeat counter of a member
\* ------------------------------------------------------------------------

\* The heartbeat counter of the record stored for h in group g.
StoredBeats(mm, hp, g, h) == hp[mm[g][h]].Heartbeats

\* C17: while a host stays a member through addNode (forced or not) and
\* pingNode calls, the heartbeat counter of its stored record never
\* decreases.
HeartbeatMonotone ==
    [][\A g \in GroupIdx, h \in Hosts :
           (m[g][h] # Nil /\ m'[g][h] # Nil) =>
               StoredBeats(m', heap', g, h) >= StoredBeats(m, heap, g, h)]_vars

\* The counter never decreases in a step that keeps the stored record in
\* place.
HeartbeatMonotoneSameRecord ==
    [][\A g \in GroupIdx, h \in Hosts :
           (m[g][h] # Nil /\ m'[g][h] = m[g][h]) =>
               StoredBeats(m', heap', g, h) >= StoredBeats(m, heap, g, h)]_vars

\* ------------------------------------------------------------------------
\* pingNode and a concurrent removeNode
\* ------------------------------------------------------------------------

\* Caller t takes the step in which its pingNode writes and returns.
PingReturns(t) == pc[t] = "ping_update" /\ pc'[t] = "idle"

\* C18: pingNode never adds a member: a host that a removeNode took out of
\* the group after the ping's presence check is no member when the ping
\* returns, in every interleaving of the two calls.
PingNeverAdds ==
    [][\A t \in Threads :
           (PingReturns(t) /\ m[call[t].g][call[t].host] = Nil) =>
               m'[call[t].g][call[t].host] = Nil]_vars

\* A pingNode whose host is a member when it writes leaves every group with
\* the members it had.
PingKeepsMembers ==
    [][\A t \in Threads :
           (PingReturns(t) /\ m[call[t].g][call[t].host] # Nil) =>
               \A g \in GroupIdx, h \in Hosts : (m'[g][h] # Nil) <=> (m[g][h] # Nil)]_vars

\* ------------------------------------------------------------------------
\* Two addNode calls for one absent host
\* ------------------------------------------------------------------------

\* Callers t and u have both returned from addNode(_, false) of the same
\* host of the same group, and these are the only calls made on the empty
\* system, so that the host was absent and nothing removed it.
BothAdded(t, u) ==
    /\ t # u /\ calls = 2
    /\ Returned(t, "addNode") /\ Returned(u, "addNode")
    /\ call[t].g = call[u].g /\ call[t].host = call[u].host
    /\ ~call[t].force /\ ~call[u].force

\* C19: of two addNode(_, false) calls for the same absent host, in every
\* interleaving one returns nil and the other errNodeExists, and the stored
\* record is the one the successful call passed.
AddNodeOneWins ==
    \A t, u \in Threads :
        BothAdded(t, u) =>
            \/ /\ ret[t].err = "nil" /\ ret[u].err = "errNodeExists"
               /\ m[call[t].g][call[t].host] = call[t].node
            \/ /\ ret[u].err = "nil" /\ ret[t].err = "errNodeExists"
               /\ m[call[u].g][call[u].host] = call[u].node

\* When the first of the two calls has stored its record before the second
\* reads the map, the second is refused and the first's record stays.
AddNodeAfterStore ==
    \A t, u \in Threads :
        (BothAdded(t, u) /\ ret[u].err = "errNodeExists") =>
            /\ ret[t].err = "nil"
            /\ m[call[t].g][call[t].host] = call[t].node

\* ------------------------------------------------------------------------
\* Accesses of the membership map and the group's lock
\* ------------------------------------------------------------------------

\* The positions at which a caller's next step reads group.m: the lookups
\* of addNode, removeNode, pingNode and getNode, the iteration of Nodes,
\* and the len(group.m) of count and of the two log statements.
MapReadAt == {"add_check", "rem_check", "ping_check", "gn_read", "nodes_read",
              "count_read", "add_log", "rem_log"}

\* The positions at which a caller's next step writes group.m.
MapWriteAt == {"add_store", "rem_delete", "ping_update"}

\* Caller t holds the lock of group g in read or in write mode.
HoldsLock(t, g) == t \in mu[g].r \/ mu[g].w = t

\* Caller t is about to read the map of its group holding no lock.
ReadsUnlocked(t) == pc[t] \in MapReadAt /\ ~HoldsLock(t, call[t].g)

\* No caller is about to write a map that another is about to read with
\* no lock.
NoMapRace ==
    \A t, u \in Threads :
        ~(t # u /\ pc[u] \in MapWriteAt /\ ReadsUnlocked(t) /\ call[t].g = call[u].g)

\* Every write of a map is made under the group's write lock.
MapWritesLocked ==
    \A t \in Threads : pc[t] \in MapWriteAt => mu[call[t].g].w = t

\* C20: every read of a group's map by addNode, removeNode, pingNode,
\* Nodes, count and getNode is made under the group's lock and every write
\* under its write lock, so no caller writes a map while another reads it
\* with no lock.
MapAccessLocked ==
    /\ \A t \in Threads : ~ReadsUnlocked(t)
    /\ MapWritesLocked
    /\ NoMapRace

\* ------------------------------------------------------------------------
\* affinityGroups.nextClosestGroup
\* ------------------------------------------------------------------------

\* Lists of 1..MaxWalkGroups groups are walked.
MaxWalkGroups == 3

\* The hosts in a fixed order, to lay the records of the members out on the
\* heap.
HostSeq == CHOOSE o \in Orders(Hosts) : TRUE
HostNo(h) == CHOOSE k \in DOMAIN HostSeq : HostSeq[k] = h

\* The address of the record of host h of group g.
Slot(g, h) == g * Cardinality(Hosts) + HostNo(h)

\* n groups whose members are given by S[g], every member with a record of
\* its own.
InitClosest ==
    /\ numGroups \in 1..MaxWalkGroups
    /\ hashSize = FacadeHashSize
    /\ groups = genAffinityGroups(numGroups, hashSize)
    /\ id = <<>>
    /\ arr = [lo |-> 0, n |-> 0]
    /\ gpc = "off"
    /\ gret = 0
    /\ hashFunc \in HashFuncs
    /\ \E S \in [0..(numGroups - 1) -> SUBSET Hosts] :
          /\ m = [g \in 0..(numGroups - 1) |->
                    [h \in Hosts |-> IF h \in S[g] THEN Slot(g, h) ELSE Nil]]
          /\ heap = [p \in 1..(numGroups * Cardinality(Hosts)) |->
                       IF \E g \in 0..(numGroups - 1) : \E h \in S[g] : Slot(g, h) = p
                       THEN [host |-> HostSeq[((p - 1) % Cardinality(Hosts)) + 1],
                             Heartbeats |-> 0, LastSeen |-> 0, Coordinates |-> NoCoord]
                       ELSE NoNode]
    /\ mu = [g \in 0..(numGroups - 1) |-> [w |-> "none", r |-> {}]]
    /\ tuples = [k \in Keys |-> <<>>]
    /\ now = 0
    /\ pc = [t \in Threads |-> "idle"]
    /\ call = [t \in Threads |-> NoCall]
    /\ ret = [t \in Threads |-> NoRet]
    /\ pre = NoPre
    /\ calls = 0
    /\ beats = [g \in 0..(numGroups - 1) |-> [h \in Hosts |-> NoBeats]]

\* The local variable group: the group whose Nodes() was read last.  The
\* groups read so far are kept in call[t].acc, and nodes in call[t].list.
ncgGroup(t) == call[t].acc[Len(call[t].acc)]

\* ncgPrev that stops at index 0.
ncgPrevNoWrap(index, len) == IF index = 0 THEN 0 ELSE index - 1

\* if group.index == 0 { group = ct[len(ct)-1] } else { group = ct[group.index-1] }
ncgPrev(index, len) == IF index = 0 THEN len - 1 ELSE index - 1

StartNextClosestGroup(t) ==
    \E g \in DOMAIN m :
        /\ Begin(t, [NoCall EXCEPT !.op = "nextClosestGroup", !.g = g], "ncg_first",
                 heap, TRUE)
        /\ UNCHANGED <<m, mu, tuples, now, beats, cfgVars>>

\* group := g; nodes := group.Nodes()
NcgFirst(t) ==
    /\ pc[t] = "ncg_first"
    /\ canRLock(call[t].g)
    /\ \E n \in Nodes(call[t].g) :
           call' = [call EXCEPT ![t].acc = <<call[t].g>>, ![t].list = n]
    /\ Goto(t, "RETRY")
    /\ UNCHANGED <<m, heap, mu, tuples, now, ret, pre, calls, beats, cfgVars>>

\* RETRY: if len(nodes) == 0 { ... } return group
NcgRetry(t) ==
    /\ pc[t] = "RETRY"
    /\ IF Len(call[t].list) = 0
       THEN /\ Goto(t, "ncg_prev")
            /\ UNCHANGED ret
       ELSE Return(t, [NoRet EXCEPT !.err = "nil",
                                    !.recs = <<groups[ncgGroup(t) + 1]>>])
    /\ UNCHANGED <<m, heap, mu, tuples, now, call, pre, calls, beats, cfgVars>>

\* group = ct[...]; nodes = group.Nodes();
\* if group.index != g.index { goto RETRY }; return nil
NcgPrev(t) ==
    /\ pc[t] = "ncg_prev"
    /\ LET group == groups[ncgPrev(groups[ncgGroup(t) + 1].index, Len(groups)) + 1]
       IN  /\ canRLock(group.index)
           /\ \E n \in Nodes(group.index) :
                  call' = [call EXCEPT ![t].acc = Append(@, group.index), ![t].list = n]
           /\ IF group.index # call[t].g
              THEN /\ Goto(t, "RETRY")
                   /\ UNCHANGED ret
              ELSE Return(t, [NoRet EXCEPT !.err = "nil"])
    /\ UNCHANGED <<m, heap, mu, tuples, now, pre, calls, beats, cfgVars>>

NextClosest ==
    \E t \in {SeqThread} :
        StartNextClosestGroup(t) \/ NcgFirst(t) \/ NcgRetry(t) \/ NcgPrev(t)

SpecClosest == InitClosest /\ [][NextClosest]_vars

\* The walk runs to its end: a step that can be taken is taken.
SpecClosestFair == SpecClosest /\ WF_vars(NextClosest)

\* The index reached from g after k steps downward, wrapping from 0 to the
\* last index.
WalkAt(g, k) == (g - k) % numGroups

\* The groups nextClosestGroup has tested for members: every group read,
\* but the last when nil was returned (g, read again on arriving back).
ncgInspected(t) ==
    IF ret[t].recs = <<>> THEN SubSeq(call[t].acc, 1, Len(call[t].acc) - 1)
    ELSE call[t].acc

\* C16: with the membership at rest, nextClosestGroup(g) inspects at most
\* len(groups) groups and terminates; it returns g when g has a member,
\* else the first group with a member on the walk g.index-1, g.index-2, ...
\* wrapping from 0 to the last index, and nil exactly when every group is
\* empty.
NextClosestWalk ==
    \A t \in Threads :
        Returned(t, "nextClosestGroup") =>
            /\ Len(ncgInspected(t)) <= Len(groups)
            /\ \A k \in DOMAIN ncgInspected(t) :
                   ncgInspected(t)[k] = WalkAt(call[t].g, k - 1)
            /\ IF \A g \in DOMAIN m : Members(g) = {}
               THEN ret[t].recs = <<>>
               ELSE LET first == CHOOSE k \in 0..(numGroups - 1) :
                                     /\ Members(WalkAt(call[t].g, k)) # {}
                                     /\ \A j \in 0..(k - 1) :
                                            Members(WalkAt(call[t].g, j)) = {}
                    IN  ret[t].recs = <<groups[WalkAt(call[t].g, first) + 1]>>

NextClosestNone ==
    \E t \in Threads :
        /\ Returned(t, "nextClosestGroup")
        /\ numGroups = 3 /\ call[t].g = 1
        /\ ret[t].recs = <<>>

\* ------------------------------------------------------------------------
\* Records returned by the reads, and later pings
\* ------------------------------------------------------------------------

\* One caller reads (getNode, Nodes, Lookup) and keeps what it was returned;
\* the other adds and pings members and fills the directory.  The calls run
\* one at a time.
Reader == SeqThread
Writer == CHOOSE t \in Threads : t # Reader

NextReads ==
    \/ \E t \in {Writer} :
        \/ StartAddNode(t, TRUE, FirstGroup) \/ StartPingNode(t, TRUE, FirstGroup)
        \/ StartInsert(t, TRUE)
        \/ AddRLock(t) \/ AddCheck(t) \/ AddLock(t) \/ AddStore(t) \/ AddLog(t)
        \/ PingRLock(t) \/ PingCheck(t) \/ PingLock(t) \/ PingUpdate(t)
        \/ Insert(t)
    \/ \E t \in {Reader} :
        \/ StartGetNode(t, TRUE, FirstGroup) \/ StartNodes(t, TRUE, FirstGroup)
        \/ StartLookup(t, TRUE)
        \/ GetNodeRLock(t) \/ GetNodeRead(t)
        \/ NodesRLock(t) \/ NodesRead(t)
        \/ LookupGet(t) \/ LookupRLock(t) \/ LookupRead(t)

SpecReads == Init /\ [][NextReads]_vars

\* The Node Records caller t holds from its last call: those it was given
\* by value, and those it reaches through the pointers it was given.
Held(rt, hp) == rt.recs \o [k \in DOMAIN rt.ptrs |-> hp[rt.ptrs[k]]]

ReadOps == {"getNode", "Nodes", "Lookup"}

\* C13: a Node Record obtained from Nodes(), getNode or Lookup keeps the
\* heartbeat counter, last-seen and coordinate it had when it was returned,
\* whatever calls run afterwards.
ReadsReturnCopies ==
    [][\A t \in Threads :
           (pc[t] = "idle" /\ pc'[t] = "idle" /\ call[t].op \in ReadOps) =>
               Held(ret'[t], heap') = Held(ret[t], heap)]_vars

\* The records Nodes() returned stay as they were.
NodesReturnsCopies ==
    [][\A t \in Threads :
           (pc[t] = "idle" /\ pc'[t] = "idle" /\ call[t].op = "Nodes") =>
               Held(ret'[t], heap') = Held(ret[t], heap)]_vars

\* ------------------------------------------------------------------------
\* localGroup.Snapshot
\* ------------------------------------------------------------------------

\* The Snapshot under construction is the value returned: ret[t].recs is
\* snapshot.Tuples and ret[t].ptrs is snapshot.Nodes.  call[t].list holds
\* the keys Iter has still to visit and call[t].g the position of the loops
\* over the groups.

\* snapAddr that takes the address of the stored record itself.
snapAddrLive(hp, rec) == CHOOSE p \in DOMAIN hp : hp[p] = rec

\* &node: node is the parameter of the function iterNodes calls, a variable
\* of its own in every call, so its address is a new one.
snapAddr(hp, rec) == NewPtr(hp)

\* The heap with rec at address a.
snapStore(hp, a, rec) ==
    [p \in 1..(IF a > Len(hp) THEN a ELSE Len(hp)) |-> IF p = a THEN rec ELSE hp[p]]

\* for _, node := range nodes { f(node) }, f appending &node: the heap and
\* the pointers appended.
RECURSIVE snapCopies(_, _)
snapCopies(hp, recs) ==
    IF Len(recs) = 0 THEN [heap |-> hp, ptrs |-> <<>>]
    ELSE LET a == snapAddr(hp, Head(recs))
             rest == snapCopies(snapStore(hp, a, Head(recs)), Tail(recs))
         IN  [heap |-> rest.heap, ptrs |-> <<a>> \o rest.ptrs]

\* tuple := &Tuple{Key: key, Hosts: ...}; every host appended
snapTuple(k, hosts) == [Key |-> k, Hosts |-> hosts]

StartSnapshot(t, seq) ==
    \E o \in Orders(Keys) :
        /\ Begin(t, [NoCall EXCEPT !.op = "Snapshot", !.list = o, !.g = 0],
                 "snap_tcount", Swept(t), seq)
        /\ UNCHANGED <<m, mu, tuples, now, cfgVars, beats>>

\* lrpc.tuples.Count(): the capacity of snapshot.Tuples
SnapTuplesCount(t) ==
    /\ pc[t] = "snap_tcount"
    /\ Goto(t, "snap_ncount")
    /\ UNCHANGED <<m, heap, mu, tuples, now, call, ret, pre, calls, beats, cfgVars>>

\* lrpc.groups.nodeCount(): one round of for _, g := range ct { c += g.count() },
\* count() reading under the read lock; c is the capacity of snapshot.Nodes
SnapNodeCount(t) ==
    /\ pc[t] = "snap_ncount"
    /\ canRLock(groups[call[t].g + 1].index)
    /\ IF call[t].g + 1 = Len(groups)
       THEN /\ call' = [call EXCEPT ![t].g = 0]
            /\ Goto(t, "snap_iter")
       ELSE /\ call' = [call EXCEPT ![t].g = @ + 1]
            /\ UNCHANGED pc
    /\ UNCHANGED <<m, heap, mu, tuples, now, ret, pre, calls, beats, cfgVars>>

\* lrpc.tuples.Iter: the visit of one key; a key with hosts gives a Tuple.
SnapIterKey(t) ==
    /\ pc[t] = "snap_iter"
    /\ Len(call[t].list) > 0
    /\ call' = [call EXCEPT ![t].list = Tail(@)]
    /\ ret' = IF tuplesFound(tuples, Head(call[t].list))
              THEN [ret EXCEPT ![t].recs =
                       Append(@, snapTuple(Head(call[t].list),
                                           tuples[Head(call[t].list)]))]
              ELSE ret
    /\ UNCHANGED <<m, heap, mu, tuples, now, pc, pre, calls, beats, cfgVars>>

\* Iter has visited every key.
SnapIterDone(t) ==
    /\ pc[t] = "snap_iter"
    /\ Len(call[t].list) = 0
    /\ Goto(t, "snap_nodes")
    /\ UNCHANGED <<m, heap, mu, tuples, now, call, ret, pre, calls, beats, cfgVars>>

\* iterNodes: one round of for _, group := range ct: nodes := group.Nodes()
\* under the read lock, then a pointer to a copy of each node is appended;
\* return snapshot after the last group.
SnapGroup(t) ==
    /\ pc[t] = "snap_nodes"
    /\ canRLock(groups[call[t].g + 1].index)
    /\ \E n \in Nodes(groups[call[t].g + 1].index) :
          LET c == snapCopies(heap, n)
          IN  /\ heap' = c.heap
              /\ IF call[t].g + 1 = Len(groups)
                 THEN /\ Return(t, [ret[t] EXCEPT !.err = "nil", !.ptrs = @ \o c.ptrs])
                      /\ UNCHANGED call
                 ELSE /\ ret' = [ret EXCEPT ![t].ptrs = @ \o c.ptrs]
                      /\ call' = [call EXCEPT ![t].g = @ + 1]
                      /\ UNCHANGED pc
    /\ UNCHANGED <<m, mu, tuples, now, pre, calls, beats, cfgVars>>

\* Every host is a member of the group that owns its digest only.
HomeGroup == [h \in Hosts |-> {lookupGroup(h)}]

\* One caller takes Snapshots and keeps the last; the other changes the
\* directory and the membership.  The calls run one at a time.
NextSnapSeq ==
    \/ \E t \in {Writer} :
        \/ StartAddNode(t, TRUE, HomeGroup) \/ StartRemoveNode(t, TRUE, HomeGroup)
        \/ StartPingNode(t, TRUE, HomeGroup)
        \/ StartInsert(t, TRUE) \/ StartDel(t, TRUE)
        \/ AddRLock(t) \/ AddCheck(t) \/ AddLock(t) \/ AddStore(t) \/ AddLog(t)
        \/ RemRLock(t) \/ RemCheck(t) \/ RemLock(t) \/ RemDelete(t) \/ RemLog(t)
        \/ PingRLock(t) \/ PingCheck(t) \/ PingLock(t) \/ PingUpdate(t)
        \/ Insert(t) \/ Del(t)
    \/ \E t \in {Reader} :
        \/ StartSnapshot(t, TRUE)
        \/ SnapTuplesCount(t) \/ SnapNodeCount(t)
        \/ SnapIterKey(t) \/ SnapIterDone(t) \/ SnapGroup(t)

SpecSnapSeq == Init /\ [][NextSnapSeq]_vars

\* The Snapshot caller t holds: its tuples, and the node records its
\* pointers lead to.
SnapValue(rt, hp) ==
    [Tuples |-> rt.recs, Nodes |-> [k \in DOMAIN rt.ptrs |-> hp[rt.ptrs[k]]]]

\* The member slots (group, host) of the membership mm.
MemberSlots(mm) == {gh \in GroupIdx \X Hosts : mm[gh[1]][gh[2]] # Nil}

\* The Snapshot value sv holds exactly the keys with their hosts of the
\* directory tp and exactly the records of the members of mm, each once.
SnapExact(sv, tp, mm, hp) ==
    /\ Range(sv.Tuples) = {snapTuple(k, tp[k]) : k \in {x \in Keys : Len(tp[x]) > 0}}
    /\ Len(sv.Tuples) = tuplesCount(tp)
    /\ Range(sv.Nodes) = {hp[mm[gh[1]][gh[2]]] : gh \in MemberSlots(mm)}
    /\ Len(sv.Nodes) = Cardinality(MemberSlots(mm))

\* Caller t takes the step in which its Snapshot returns.
SnapReturns(t) == pc[t] = "snap_nodes" /\ pc'[t] = "idle"

\* C11: a Snapshot taken with no concurrent mutation holds exactly the
\* keys with their hosts and the node records present when it was called,
\* and no later Insert, Del, addNode, removeNode or pingNode changes a key,
\* a host list or a node record (heartbeat counter included) held in it.
SnapshotValueCopy ==
    [][\A t \in Threads :
           /\ SnapReturns(t) =>
                  SnapExact(SnapValue(ret'[t], heap'), pre.tuples, pre.m, pre.heap)
           /\ (pc[t] = "idle" /\ pc'[t] = "idle" /\ call[t].op = "Snapshot") =>
                  SnapValue(ret'[t], heap') = SnapValue(ret[t], heap)]_vars

\* A Snapshot holds a key and the record of a member, and that member has
\* been pinged since: its stored record counts more heartbeats than the
\* Snapshot's.
SnapshotValueCopyWitness ==
    \E t \in Threads :
        /\ Returned(t, "Snapshot")
        /\ Len(ret[t].recs) > 0
        /\ \E k \in DOMAIN ret[t].ptrs, g \in GroupIdx :
              /\ m[g][heap[ret[t].ptrs[k]].host] # Nil
              /\ heap[m[g][heap[ret[t].ptrs[k]].host]].Heartbeats
                     > heap[ret[t].ptrs[k]].Heartbeats

\* ------------------------------------------------------------------------
\* Snapshot while members are added
\* ------------------------------------------------------------------------

\* One caller takes Snapshots while the other adds members; the steps of
\* the two interleave.  Nothing is removed, and every record stored is
\* stamped with a reading of the clock (LastSeen) later than all before it.
NextSnap ==
    \/ \E t \in {Writer} :
        \/ StartAddNode(t, FALSE, HomeGroup)
        \/ AddRLock(t) \/ AddCheck(t) \/ AddLock(t) \/ AddStore(t) \/ AddLog(t)
    \/ \E t \in {Reader} :
        \/ StartSnapshot(t, FALSE)
        \/ SnapTuplesCount(t) \/ SnapNodeCount(t)
        \/ SnapIterKey(t) \/ SnapIterDone(t) \/ SnapGroup(t)

SpecSnap == Init /\ [][NextSnap]_vars

\* The stored record r was stored no later than a record of the Snapshot
\* value sv.
StoredBy(r, sv) == \E k \in DOMAIN sv.Nodes : sv.Nodes[k].LastSeen >= r.LastSeen

\* C12: every Snapshot returned holds exactly what the live system held at
\* one instant between its call and its return.  Where members are only
\* added, a record that is stored now was stored from its LastSeen on; at
\* an instant at which the system held a record of the Snapshot it
\* therefore held every record stored now with an earlier LastSeen, so the
\* Snapshot holds each of these.
SnapshotAtInstant ==
    \A t \in Threads :
        Returned(t, "Snapshot") =>
            \A gh \in MemberSlots(m) :
                StoredBy(heap[m[gh[1]][gh[2]]], SnapValue(ret[t], heap)) =>
                    heap[m[gh[1]][gh[2]]] \in Range(SnapValue(ret[t], heap).Nodes)

\* The same of the records of any one group: the part of a Snapshot read
\* from one group is what that group held at one instant.
SnapshotAtInstantPerGroup ==
    \A t \in Threads :
        Returned(t, "Snapshot") =>
            \A gh \in MemberSlots(m) :
                (\E k \in DOMAIN ret[t].ptrs :
                    /\ heap[ret[t].ptrs[k]].LastSeen >= heap[m[gh[1]][gh[2]]].LastSeen
                    /\ lookupGroup(heap[ret[t].ptrs[k]].host) = gh[1]) =>
                    heap[m[gh[1]][gh[2]]] \in Range(SnapValue(ret[t], heap).Nodes)

====
